---- MODULE Spec2Model ----
(***************************************************************************)
(* Task Management API (task-management-api/main.py): a FastAPI service    *)
(* with one SQLModel table, Task, and six endpoints.  The module models    *)
(* the table, the pydantic request models, the handlers as atomic          *)
(* requests (Spec), and two PUT requests whose session.get, commit and     *)
(* refresh steps interleave (SpecConc).                                    *)
(***************************************************************************)
EXTENDS Integers, Sequences, FiniteSets, TLC

\* tasks    : the task table, primary key -> row
\* clock    : the wall clock datetime.now reads
\* req, resp: the request being served and its response
\* before   : the table as it was when the request being served arrived
\* inflight : the sessions of the requests in flight at once (SpecConc)
VARIABLES tasks, clock, req, resp, before, inflight

vars == <<tasks, clock, req, resp, before, inflight>>

\* ---------------------------------------------------------------- bounds
\* Largest primary key the model lets the table hand out.
MaxId == 2

\* Number of successful POSTs (each reads a later datetime.now).
MaxClock == 2

\* ------------------------------------------------------ program constants
\* Task.title: Field(min_length=1, max_length=200)
MinTitleLength == 1

MaxTitleLength == 200

\* ------------------------------------------------------------ JSON values
Fields == {"title", "description", "completed", "priority"}

\* A placeholder of the field's type, carried by null and by absent keys.
Dummy == [title |-> "", description |-> "", completed |-> FALSE, priority |-> ""]

Some(x) == [k |-> "val", v |-> x]

None(f) == [k |-> "null", v |-> Dummy[f]]

Unset(f) == [k |-> "absent", v |-> Dummy[f]]

\* Stands for a title of MaxTitleLength + 1 characters.
LongTitle == "<201 characters>"

\* len(s)
Length(s) == IF s = LongTitle THEN MaxTitleLength + 1 ELSE Len(s)

Titles == {"", "a", LongTitle}

Descriptions == {"d"}

Priorities == {"high"}

TitleIn == {Unset("title"), None("title")} \cup {Some(t) : t \in Titles}

DescriptionIn == {Unset("description"), None("description")} \cup {Some(d) : d \in Descriptions}

CompletedIn == {Unset("completed"), None("completed")} \cup {Some(c) : c \in BOOLEAN}

PriorityIn == {Unset("priority"), None("priority")} \cup {Some(p) : p \in Priorities}

\* The JSON bodies a client sends.
Bodies == [title : TitleIn, description : DescriptionIn, completed : CompletedIn, priority : PriorityIn]

EmptyBody == [f \in Fields |-> Unset(f)]

\* ------------------------------------------------------ Task table model
\* Columns of Task that SQLModel creates NOT NULL (annotation without None).
NotNull == {"title", "completed", "priority"}

\* datetime.now(timezone.utc): an aware datetime.
Now == [t |-> clock, tz |-> "+00:00"]

\* The DateTime column keeps the wall time and drops tzinfo.
ToDb(dt) == [t |-> dt.t, tz |-> ""]

isoformat(dt) == <<dt.t, dt.tz>>

\* INTEGER PRIMARY KEY: one more than the largest id in the table.
NextId == IF DOMAIN tasks = {} THEN 1 ELSE 1 + CHOOSE i \in DOMAIN tasks : \A j \in DOMAIN tasks : j <= i

\* The dict every handler builds from a Task.
ToDict(t) == [id |-> t.id, title |-> t.title, description |-> t.description, completed |-> t.completed, priority |-> t.priority, created_at |-> isoformat(t.created_at)]

\* ---------------------------------------------------- request models
\* TaskCreate: title required, the rest defaulted.
TaskCreateValid(b) == b.title.k = "val" /\ b.completed.k # "null" /\ b.priority.k # "null"

TaskCreate(b) == [title |-> b.title, description |-> IF b.description.k = "val" THEN b.description ELSE None("description"), completed |-> IF b.completed.k = "absent" THEN Some(FALSE) ELSE b.completed, priority |-> IF b.priority.k = "absent" THEN Some("medium") ELSE b.priority]

\* Mutant of TaskUpdateValid: completed and priority declared without defaults.
TaskUpdateValid_required(b) == b.title.k = "val" /\ b.completed.k = "val" /\ b.priority.k = "val"

\* TaskUpdate: the same fields and defaults as TaskCreate.
TaskUpdateValid(b) == b.title.k = "val" /\ b.completed.k # "null" /\ b.priority.k # "null"

TaskUpdate(b) == [title |-> b.title, description |-> IF b.description.k = "val" THEN b.description ELSE None("description"), completed |-> IF b.completed.k = "absent" THEN Some(FALSE) ELSE b.completed, priority |-> IF b.priority.k = "absent" THEN Some("medium") ELSE b.priority]

\* TaskPatch.model_dump(exclude_unset=True): the keys the body carries.
TaskPatchKeys(b) == {f \in Fields : b[f].k # "absent"}

TaskPatchValue(b, f) == IF b[f].k = "null" THEN None(f) ELSE b[f]

\* ---------------------------------------------------- unit of work
\* Mutant of PutAssign: description is assigned only when the body gives one.
PutAssign_merge(db_task, task) == [db_task EXCEPT !.title = task.title, !.description = IF task.description.k = "null" THEN @ ELSE task.description, !.completed = task.completed, !.priority = task.priority]

\* update_task: the four assignments to db_task.
PutAssign(db_task, task) == [db_task EXCEPT !.title = task.title, !.description = task.description, !.completed = task.completed, !.priority = task.priority]

\* Mutant of PatchAssign: model_dump() without exclude_unset, so omitted keys are set to None.
PatchAssign_dump_all(db_task, b) == [db_task EXCEPT !.title = IF b.title.k = "val" THEN b.title ELSE None("title"), !.description = IF b.description.k = "val" THEN b.description ELSE None("description"), !.completed = IF b.completed.k = "val" THEN b.completed ELSE None("completed"), !.priority = IF b.priority.k = "val" THEN b.priority ELSE None("priority")]

\* Mutant of PatchAssign: the partial update also stamps created_at.
PatchAssign_touch(db_task, b) == [db_task EXCEPT !.title = IF b.title.k # "absent" THEN b.title ELSE @, !.description = IF b.description.k # "absent" THEN b.description ELSE @, !.completed = IF b.completed.k # "absent" THEN b.completed ELSE @, !.priority = IF b.priority.k # "absent" THEN b.priority ELSE @, !.created_at = ToDb(Now)]

\* patch_task: setattr for every key of task_data.
PatchAssign(db_task, b) == [db_task EXCEPT !.title = IF "title" \in TaskPatchKeys(b) THEN TaskPatchValue(b, "title") ELSE @, !.description = IF "description" \in TaskPatchKeys(b) THEN TaskPatchValue(b, "description") ELSE @, !.completed = IF "completed" \in TaskPatchKeys(b) THEN TaskPatchValue(b, "completed") ELSE @, !.priority = IF "priority" \in TaskPatchKeys(b) THEN TaskPatchValue(b, "priority") ELSE @]

Columns == Fields \cup {"created_at"}

\* The attributes whose value differs from the one the session loaded.
Changed(loaded, obj) == {f \in Columns : obj[f] # loaded[f]}

\* session.commit raises IntegrityError when the UPDATE sets a NOT NULL column to NULL.
IntegrityError(loaded, obj) == \E f \in Changed(loaded, obj) \cap NotNull : obj[f].k = "null"

\* Mutant of Flush: the changes are never committed.
Flush_no_commit(row, loaded, obj) == row

\* The UPDATE the flush emits: only the changed columns are SET.
Flush(row, loaded, obj) == [row EXCEPT !.title = IF "title" \in Changed(loaded, obj) THEN obj.title ELSE @, !.description = IF "description" \in Changed(loaded, obj) THEN obj.description ELSE @, !.completed = IF "completed" \in Changed(loaded, obj) THEN obj.completed ELSE @, !.priority = IF "priority" \in Changed(loaded, obj) THEN obj.priority ELSE @, !.created_at = IF "created_at" \in Changed(loaded, obj) THEN obj.created_at ELSE @]

\* Mutant of Refresh: the object is returned as it was before the commit.
Refresh_stale(t, db_task) == db_task

\* session.refresh: the object takes the row's current values.
Refresh(t, db_task) == t[db_task.id]

Insert(t, id, row) == [i \in DOMAIN t \cup {id} |-> IF i = id THEN row ELSE t[i]]

\* Mutant of Remove: the row is kept.
Remove_soft(t, id) == t

Remove(t, id) == [i \in DOMAIN t \ {id} |-> t[i]]

\* ---------------------------------------------------- requests, responses
Ids == 1..MaxId

Request(verb, id, b) == [verb |-> verb, id |-> id, body |-> b]

Ok(status, t) == [status |-> status, detail |-> "", task |-> <<ToDict(t)>>, list |-> <<>>, message |-> <<>>]

NotFound == [status |-> 404, detail |-> "Task not found", task |-> <<>>, list |-> <<>>, message |-> <<>>]

Unprocessable == [status |-> 422, detail |-> "validation error", task |-> <<>>, list |-> <<>>, message |-> <<>>]

ServerError == [status |-> 500, detail |-> "Internal Server Error", task |-> <<>>, list |-> <<>>, message |-> <<>>]

NoResponse == [status |-> 0, detail |-> "", task |-> <<>>, list |-> <<>>, message |-> <<>>]

\* select(Task) returns the rows in primary-key order.
AllTasks(t) == LET ids == DOMAIN t
                   nth(n) == CHOOSE i \in ids : Cardinality({j \in ids : j < i}) = n - 1
               IN [n \in 1..Cardinality(ids) |-> ToDict(t[nth(n)])]

\* ---------------------------------------------------- handlers (atomic)
\* No request is being served: the previous request's session is closed.
Idle == req.verb = "NONE"

root ==
  /\ Idle
  /\ req' = Request("ROOT", 0, EmptyBody)
  /\ resp' = [status |-> 200, detail |-> "", task |-> <<>>, list |-> <<>>, message |-> <<"Welcome to Task Management API">>]
  /\ UNCHANGED <<tasks, clock, before, inflight>>

create_task ==
  \E b \in Bodies :
    /\ Idle
    /\ req' = Request("POST", 0, b)
    /\ IF ~TaskCreateValid(b)
       THEN resp' = Unprocessable /\ UNCHANGED <<tasks, clock>>
       ELSE /\ NextId <= MaxId
            /\ clock < MaxClock
            /\ LET task == TaskCreate(b)
                   db_task == [id |-> NextId, title |-> task.title, description |-> task.description, completed |-> task.completed, priority |-> task.priority, created_at |-> Now]
               IN /\ tasks' = Insert(tasks, NextId, [db_task EXCEPT !.created_at = ToDb(@)])
                  /\ resp' = Ok(201, Refresh(tasks', db_task))
            /\ clock' = clock + 1
    /\ UNCHANGED <<before, inflight>>

get_all_tasks ==
  /\ Idle
  /\ req' = Request("LIST", 0, EmptyBody)
  /\ resp' = [status |-> 200, detail |-> "", task |-> <<>>, list |-> AllTasks(tasks), message |-> <<>>]
  /\ UNCHANGED <<tasks, clock, before, inflight>>

\* Mutant of GetResponse: a missing row is answered with an empty 200.
GetResponse_no_check(t, task_id) == IF task_id \notin DOMAIN t THEN [status |-> 200, detail |-> "", task |-> <<>>, list |-> <<>>, message |-> <<>>] ELSE Ok(200, t[task_id])

\* get_task's answer for task_id when the table is t.
GetResponse(t, task_id) == IF task_id \notin DOMAIN t THEN NotFound ELSE Ok(200, t[task_id])

get_task ==
  \E task_id \in Ids :
    /\ Idle
    /\ req' = Request("GET", task_id, EmptyBody)
    /\ resp' = GetResponse(tasks, task_id)
    /\ UNCHANGED <<tasks, clock, before, inflight>>

update_task ==
  \E task_id \in Ids, b \in Bodies :
    /\ Idle
    /\ req' = Request("PUT", task_id, b)
    /\ IF ~TaskUpdateValid(b)
       THEN resp' = Unprocessable /\ UNCHANGED tasks
       ELSE IF task_id \notin DOMAIN tasks
       THEN resp' = NotFound /\ UNCHANGED tasks
       ELSE LET loaded == tasks[task_id]
                db_task == PutAssign(loaded, TaskUpdate(b))
            IN IF IntegrityError(loaded, db_task)
               THEN resp' = ServerError /\ UNCHANGED tasks
               ELSE /\ tasks' = [tasks EXCEPT ![task_id] = Flush(@, loaded, db_task)]
                    /\ resp' = Ok(200, Refresh(tasks', db_task))
    /\ UNCHANGED <<clock, before, inflight>>

patch_task ==
  \E task_id \in Ids, b \in Bodies :
    /\ Idle
    /\ req' = Request("PATCH", task_id, b)
    /\ IF task_id \notin DOMAIN tasks
       THEN resp' = NotFound /\ UNCHANGED tasks
       ELSE LET loaded == tasks[task_id]
                db_task == PatchAssign(loaded, b)
            IN IF IntegrityError(loaded, db_task)
               THEN resp' = ServerError /\ UNCHANGED tasks
               ELSE /\ tasks' = [tasks EXCEPT ![task_id] = Flush(@, loaded, db_task)]
                    /\ resp' = Ok(200, Refresh(tasks', db_task))
    /\ UNCHANGED <<clock, before, inflight>>

\* Mutant of DeleteOutcome: the existence check is made after the delete.
DeleteOutcome_late_check(t, task_id) == IF task_id \notin DOMAIN t THEN [tasks |-> t, resp |-> NotFound] ELSE [tasks |-> Remove(t, task_id), resp |-> NotFound]

\* delete_task's table and answer for task_id when the table is t.
DeleteOutcome(t, task_id) == IF task_id \notin DOMAIN t THEN [tasks |-> t, resp |-> NotFound] ELSE [tasks |-> Remove(t, task_id), resp |-> [status |-> 200, detail |-> "", task |-> <<>>, list |-> <<>>, message |-> <<"Task", task_id, "deleted successfully">>]]

delete_task ==
  \E task_id \in Ids :
    /\ Idle
    /\ req' = Request("DELETE", task_id, EmptyBody)
    /\ resp' = DeleteOutcome(tasks, task_id).resp
    /\ tasks' = DeleteOutcome(tasks, task_id).tasks
    /\ UNCHANGED <<clock, before, inflight>>

\* The request is over: the response is sent and get_session closes the session.
get_session ==
  /\ ~Idle
  /\ req' = Request("NONE", 0, EmptyBody)
  /\ resp' = NoResponse
  /\ before' = tasks
  /\ UNCHANGED <<tasks, clock, inflight>>

Init ==
  /\ tasks = <<>>
  /\ clock = 0
  /\ req = Request("NONE", 0, EmptyBody)
  /\ resp = NoResponse
  /\ before = tasks
  /\ inflight = <<>>

Next == root \/ create_task \/ get_all_tasks \/ get_task \/ update_task \/ patch_task \/ delete_task \/ get_session

Spec == Init /\ [][Next]_vars

\* ------------------------------------------- two PUT requests in flight
Procs == {1, 2}

\* The row both requests address.
ConcRows == {[id |-> 1, title |-> Some(t), description |-> d, completed |-> Some(c), priority |-> Some(p), created_at |-> ToDb([t |-> 0, tz |-> "+00:00"])] : t \in {"a"}, d \in {None("description"), Some("d")}, c \in BOOLEAN, p \in {"medium", "high"}}

\* The bodies the two requests carry (all pass TaskUpdate's validation).
ConcBodies == {b \in Bodies : TaskUpdateValid(b) /\ b.title.v \in {"", "a"} /\ b.description.k # "null"}

InitConc ==
  /\ \E row \in ConcRows : tasks = Insert(<<>>, 1, row)
  /\ clock = 1
  /\ req = Request("NONE", 0, EmptyBody)
  /\ resp = NoResponse
  /\ before = tasks
  /\ inflight \in [Procs -> {[pc |-> "get", task_id |-> 1, body |-> b, loaded |-> <<>>, seq |-> 0, resp |-> NoResponse] : b \in ConcBodies}]

\* update_task line 161: db_task = session.get(Task, task_id)
session_get(p) ==
  /\ inflight[p].pc = "get"
  /\ LET s == inflight[p]
     IN inflight' = [inflight EXCEPT ![p] = IF s.task_id \notin DOMAIN tasks THEN [s EXCEPT !.pc = "done", !.resp = NotFound] ELSE [s EXCEPT !.pc = "commit", !.loaded = <<tasks[s.task_id]>>]]
  /\ UNCHANGED <<tasks, clock, req, resp, before>>

\* update_task lines 165-171: the assignments, session.add and session.commit
session_commit(p) ==
  /\ inflight[p].pc = "commit"
  /\ LET s == inflight[p]
         loaded == s.loaded[1]
         db_task == PutAssign(loaded, TaskUpdate(s.body))
         n == Cardinality({q \in Procs : inflight[q].seq > 0})
     IN IF s.task_id \notin DOMAIN tasks \/ IntegrityError(loaded, db_task)
        THEN /\ inflight' = [inflight EXCEPT ![p] = [s EXCEPT !.pc = "done", !.resp = ServerError]]
             /\ UNCHANGED tasks
        ELSE /\ tasks' = [tasks EXCEPT ![s.task_id] = Flush(@, loaded, db_task)]
             /\ inflight' = [inflight EXCEPT ![p] = [s EXCEPT !.pc = "refresh", !.seq = n + 1]]
  /\ UNCHANGED <<clock, req, resp, before>>

\* update_task lines 172-181: session.refresh and the returned dict
session_refresh(p) ==
  /\ inflight[p].pc = "refresh"
  /\ LET s == inflight[p]
     IN inflight' = [inflight EXCEPT ![p] = IF s.task_id \notin DOMAIN tasks THEN [s EXCEPT !.pc = "done", !.resp = ServerError] ELSE [s EXCEPT !.pc = "done", !.resp = Ok(200, Refresh(tasks, s.loaded[1]))]]
  /\ UNCHANGED <<tasks, clock, req, resp, before>>

get1 == session_get(1)

get2 == session_get(2)

commit1 == session_commit(1)

commit2 == session_commit(2)

refresh1 == session_refresh(1)

refresh2 == session_refresh(2)

NextConc == get1 \/ get2 \/ commit1 \/ commit2 \/ refresh1 \/ refresh2

SpecConc == InitConc /\ [][NextConc]_vars

\* ==================================================== properties
\* The request being served addresses a task that was stored when it arrived.
OnExisting(verb) == req.verb = verb /\ req.id \in DOMAIN before

NullForRequired(b) == \E f \in NotNull : b[f].k = "null"

C2_PutReplaces ==
  (OnExisting("PUT") /\ resp.status = 200) =>
    /\ tasks[req.id].title = req.body.title
    /\ tasks[req.id].description = IF req.body.description.k = "val" THEN req.body.description ELSE None("description")
    /\ req.body.completed.k = "val" => tasks[req.id].completed = req.body.completed
    /\ req.body.priority.k = "val" => tasks[req.id].priority = req.body.priority
    /\ resp.task = <<ToDict(tasks[req.id])>>

\* C2 witness: a PUT without description succeeded on a task that had one.
C2_Witness ==
  /\ OnExisting("PUT")
  /\ resp.status = 200
  /\ req.body.description.k = "absent"
  /\ before[req.id].description.k = "val"

ByIdVerbs == {"GET", "PUT", "PATCH", "DELETE"}

\* C3 as stated: every GET, PUT, PATCH or DELETE on an id that is not stored
\* is answered 404 "Task not found".
C3_MissingIdAlways404 ==
  (req.verb \in ByIdVerbs /\ req.id \notin DOMAIN before) => (resp.status = 404 /\ resp.detail = "Task not found")

\* C3 amended: a GET, PUT, PATCH or DELETE on an id that is not stored, whose
\* body passes validation (a PUT body needs a title and no null completed or
\* priority), is answered 404 "Task not found" and the table is unchanged; a
\* PUT whose body fails validation is answered 422 instead.
C3_MissingId404 ==
  (req.verb \in ByIdVerbs /\ req.id \notin DOMAIN before) =>
    IF req.verb = "PUT" /\ (req.body.title.k # "val" \/ req.body.completed.k = "null" \/ req.body.priority.k = "null")
    THEN resp.status = 422
    ELSE resp.status = 404 /\ resp.detail = "Task not found" /\ resp.task = <<>> /\ tasks = before

\* C3 witness: task 1 was deleted while task 2 is stored, and a DELETE of 1
\* is answered 404.
C3_Witness ==
  /\ req.verb = "DELETE" /\ req.id = 1
  /\ DOMAIN before = {2}
  /\ resp.status = 404

\* C4: after a DELETE answered 200 the id is gone: GET and DELETE of it are
\* answered 404 and GET /tasks does not list it; an id that was not stored
\* is stored again only by a POST answered 201 with that id.
C4_HardDelete ==
  /\ (req.verb = "DELETE" /\ resp.status = 200) =>
       /\ req.id \notin DOMAIN tasks
       /\ GetResponse(tasks, req.id).status = 404
       /\ DeleteOutcome(tasks, req.id).resp.status = 404
       /\ \A n \in DOMAIN AllTasks(tasks) : AllTasks(tasks)[n].id # req.id
       /\ \A i \in DOMAIN before \ {req.id} : i \in DOMAIN tasks /\ tasks[i] = before[i]
  /\ \A i \in DOMAIN tasks \ DOMAIN before : req.verb = "POST" /\ resp.status = 201 /\ resp.task[1].id = i

\* C4 witness: task 1 was deleted with answer 200 while task 2 stays stored.
C4_Witness ==
  /\ req.verb = "DELETE" /\ req.id = 1
  /\ resp.status = 200
  /\ DOMAIN before = {1, 2}

\* C5: a POST whose body passes validation is answered 201 with the supplied
\* values, omitted fields defaulted to description = null, completed = false,
\* priority = "medium", and a GET of the returned id in the state right after
\* it answers 200 with the same id, fields and created_at.
C5_CreateThenGet ==
  (req.verb = "POST" /\ TaskCreateValid(req.body)) =>
    /\ resp.status = 201
    /\ resp.task[1].title = req.body.title
    /\ resp.task[1].description = IF req.body.description.k = "val" THEN req.body.description ELSE None("description")
    /\ resp.task[1].completed = IF req.body.completed.k = "absent" THEN Some(FALSE) ELSE req.body.completed
    /\ resp.task[1].priority = IF req.body.priority.k = "absent" THEN Some("medium") ELSE req.body.priority
    /\ resp.task[1].id \notin DOMAIN before
    /\ GetResponse(tasks, resp.task[1].id).status = 200
    /\ GetResponse(tasks, resp.task[1].id).task = resp.task

\* C5 witness: a POST with only a title created task 2.
C5_Witness ==
  /\ req.verb = "POST"
  /\ resp.status = 201
  /\ req.body.title = Some("a")
  /\ req.body.description.k = "absent" /\ req.body.completed.k = "absent" /\ req.body.priority.k = "absent"
  /\ resp.task[1].id = 2

\* C6: every stored task has a title of MinTitleLength to MaxTitleLength
\* characters.
C6_TitleLength ==
  \A i \in DOMAIN tasks :
    /\ tasks[i].title.k = "val"
    /\ Length(tasks[i].title.v) >= MinTitleLength
    /\ Length(tasks[i].title.v) <= MaxTitleLength

\* C7 as stated: a PUT on a stored task that omits completed or priority is
\* answered 422 and changes nothing.
C7_PutOmittedIs422 ==
  (OnExisting("PUT") /\ (req.body.completed.k = "absent" \/ req.body.priority.k = "absent")) =>
    (resp.status = 422 /\ tasks = before)

\* C7 amended: in a PUT only title is required.  A PUT on an existing task
\* with a title, that omits completed or priority, is answered 200 and the
\* omitted field is stored as its default (completed = false, priority =
\* "medium"); a PUT without a title is answered 422 and changes nothing.
C7_PutDefaults ==
  /\ (OnExisting("PUT") /\ req.body.title.k = "val" /\ req.body.completed.k # "null" /\ req.body.priority.k # "null") =>
       /\ resp.status = 200
       /\ req.body.completed.k = "absent" => tasks[req.id].completed = Some(FALSE)
       /\ req.body.priority.k = "absent" => tasks[req.id].priority = Some("medium")
  /\ (req.verb = "PUT" /\ req.body.title.k # "val") => (resp.status = 422 /\ tasks = before)

\* C7 witness: a PUT without completed and priority succeeded on a task that
\* was completed with priority "high".
C7_Witness ==
  /\ OnExisting("PUT")
  /\ resp.status = 200
  /\ req.body.completed.k = "absent" /\ req.body.priority.k = "absent"
  /\ before[req.id].completed = Some(TRUE) /\ before[req.id].priority = Some("high")

\* C8: a task that is stored before and after a request has the same id and
\* created_at, and every response that carries a task reports the stored id
\* and created_at of the task the request addressed.
C8_IdCreatedAtStable ==
  /\ \A i \in DOMAIN before \cap DOMAIN tasks :
       /\ tasks[i].id = i /\ before[i].id = i
       /\ tasks[i].created_at = before[i].created_at
  /\ (req.verb \in {"GET", "PUT", "PATCH"} /\ resp.status = 200) =>
       /\ resp.task[1].id = req.id
       /\ resp.task[1].created_at = isoformat(before[req.id].created_at)
  /\ (req.verb = "POST" /\ resp.status = 201) =>
       /\ tasks[resp.task[1].id].id = resp.task[1].id
       /\ resp.task[1].created_at = isoformat(tasks[resp.task[1].id].created_at)

\* C8 witness: a PATCH changed task 1 after task 2 was created, so the clock
\* has moved on since task 1's created_at.
C8_Witness ==
  /\ OnExisting("PATCH") /\ req.id = 1
  /\ resp.status = 200
  /\ DOMAIN before = {1, 2}
  /\ tasks[1] # before[1]
  /\ before[1].created_at.t < clock - 1

\* C9: a request answered 404 or 422 leaves the table as it was.
C9_FailureChangesNothing == resp.status \in {404, 422} => tasks = before

\* C9 witness: a PUT without a title on a stored task was answered 422.
C9_Witness ==
  /\ OnExisting("PUT")
  /\ req.body.title.k = "absent" /\ req.body.completed = Some(TRUE)
  /\ resp.status = 422
  /\ Cardinality(DOMAIN before) = 2

\* Both PUT requests have returned.
BothDone == \A p \in Procs : inflight[p].pc = "done"

\* The field values request p asks for.
Asked(p) == TaskUpdate(inflight[p].body)

\* The request that committed last.
Last == CHOOSE p \in Procs : inflight[p].seq = Cardinality(Procs)

\* C10 as stated: both PUTs return 200 and the stored record is the complete
\* field set of the request that committed last.
C10_LastWriteWinsWhole ==
  BothDone =>
    /\ \A p \in Procs : inflight[p].resp.status = 200
    /\ \A f \in Fields : tasks[1][f] = Asked(Last)[f]

\* C10 amended: both PUTs return 200; every field of the stored record has
\* the value one of the two requests asked for, and every field the last
\* committer changed relative to the record it looked up has its value; the
\* fields need not all come from the same request.
C10_LastWriteWinsPerField ==
  BothDone =>
    /\ \A p \in Procs : inflight[p].resp.status = 200
    /\ \A f \in Fields : \E p \in Procs : tasks[1][f] = Asked(p)[f]
    /\ \A f \in Fields : Asked(Last)[f] # inflight[Last].loaded[1][f] => tasks[1][f] = Asked(Last)[f]
    /\ tasks[1].id = before[1].id /\ tasks[1].created_at = before[1].created_at

\* C10 witness: both PUTs returned and the stored record is neither
\* request's complete field set.
C10_Witness ==
  /\ BothDone
  /\ \A p \in Procs : \E f \in Fields : tasks[1][f] # Asked(p)[f]
====
